---------------------------- MODULE Spec2Model ----------------------------
(***************************************************************************)
(* Telegram to-do bot: two task lists ("weekday", "weekend") kept in one   *)
(* persisted JSON document, changed by chat commands of one authorized     *)
(* sender and read by a daily digest.                                      *)
(*                                                                         *)
(* The repository holds two variants of the program:                       *)
(*   "jsonbin"  src/unnamed/part_000  (remote JSONBin document, GET/PUT)   *)
(*   "lowdb"    src/index.js          (local db.json through lowdb)        *)
(* The variable `variant` fixes which one is deployed.                     *)
(*                                                                         *)
(* Text is modelled as a sequence of characters at the granularity the     *)
(* code can observe: a character is a blank (" ", tab) or an indivisible   *)
(* word such as "/add", "weekday", "1.5" or "a".                           *)
(***************************************************************************)
EXTENDS Integers, Sequences, FiniteSets, TLC

VARIABLES variant, store, req, dig, wq

vars == <<variant, store, req, dig, wq>>

(***************************************************************************)
(* Bounds of the model.                                                    *)
(***************************************************************************)
MaxLen == 2

Slots == {1, 2}

Lists == {"weekday", "weekend"}

(***************************************************************************)
(* String primitives of JavaScript used by the handlers.                   *)
(***************************************************************************)
SP == " "

TAB == "\t"

WhiteSpace == {SP, TAB}

\* the value of parts[k] when k is past the end of the array
Undefined == <<"undefined">>

RECURSIVE trimStart(_)
trimStart(s) ==
  IF s # <<>> /\ Head(s) \in WhiteSpace THEN trimStart(Tail(s)) ELSE s

RECURSIVE trimEnd(_)
trimEnd(s) ==
  IF s # <<>> /\ s[Len(s)] \in WhiteSpace
  THEN trimEnd(SubSeq(s, 1, Len(s) - 1))
  ELSE s

\* String.prototype.trim
trim(s) == trimEnd(trimStart(s))

RECURSIVE splitAcc(_, _, _)
splitAcc(s, cur, acc) ==
  IF s = <<>> THEN Append(acc, cur)
  ELSE IF Head(s) = SP THEN splitAcc(Tail(s), <<>>, Append(acc, cur))
  ELSE splitAcc(Tail(s), Append(cur, Head(s)), acc)

\* text.split(" "): cuts at every single space, so a run of spaces yields
\* empty tokens and a tab is an ordinary character of a token
split(s) == splitAcc(s, <<>>, <<>>)

RECURSIVE join(_)
\* parts.join(" ")
join(parts) ==
  IF parts = <<>> THEN <<>>
  ELSE IF Len(parts) = 1 THEN parts[1]
  ELSE parts[1] \o <<SP>> \o join(Tail(parts))

\* parts.slice(k)
slice(parts, k) == SubSeq(parts, k + 1, Len(parts))

\* parts[k], 0-based
at(parts, k) == IF k + 1 <= Len(parts) THEN parts[k + 1] ELSE Undefined

lowerChar(c) ==
  CASE c = "/ADD" -> "/add"
    [] c = "/View" -> "/view"
    [] OTHER -> c

\* String.prototype.toLowerCase
toLowerCase(s) == [i \in 1..Len(s) |-> lowerChar(s[i])]

(***************************************************************************)
(* Numbers.  Number(token) is NaN or a decimal number; a number is kept in *)
(* tenths (x10) so that 1.5 is told apart from 1 and 2.                    *)
(***************************************************************************)
NaN == [nan |-> TRUE, x10 |-> 0]

Num(x10) == [nan |-> FALSE, x10 |-> x10]

numerals ==
  [c \in {"0", "1", "2", "3", "5", "1.5", "-1"} |->
     CASE c = "0" -> 0
       [] c = "1" -> 10
       [] c = "2" -> 20
       [] c = "3" -> 30
       [] c = "5" -> 50
       [] c = "1.5" -> 15
       [] c = "-1" -> -10]

\* Number(s): blanks around the numeral are ignored, the empty string is 0,
\* undefined and every non-numeral are NaN
Number(s) ==
  LET t == trim(s) IN
  IF t = <<>> THEN Num(0)
  ELSE IF Len(t) = 1 /\ t[1] \in DOMAIN numerals THEN Num(numerals[t[1]])
  ELSE NaN

\* !idx
falsyNumber(n) == n.nan \/ n.x10 = 0

\* Number.isInteger(idx)
isInteger(n) == ~n.nan /\ n.x10 % 10 = 0

\* ToIntegerOrInfinity of a number in tenths: truncation towards zero
truncate(x10) == IF x10 >= 0 THEN x10 \div 10 ELSE -((-x10) \div 10)

(***************************************************************************)
(* The task document.  `has` is the set of fields present in the JSON      *)
(* object; a field that is absent reads as undefined.                      *)
(***************************************************************************)
Doc(has, weekday, weekend) ==
  [has |-> has, weekday |-> weekday, weekend |-> weekend]

\* { weekday: [], weekend: [] }
DefaultDoc == Doc(Lists, <<>>, <<>>)

\* db[list]: the array, or undefined
defined(db, list) == list \in db.has

\* ["weekday", "weekend"].includes(list)
validList(tok) == tok \in {<<"weekday">>, <<"weekend">>}

\* a variant of push that adds at the front
pushFront(list, task) == <<task>> \o list

\* list.push(task)
push(list, task) == Append(list, task)

\* the array index idx - 1 names an own element of list
hasElement(list, idx) ==
  LET k10 == idx.x10 - 10 IN
  /\ ~idx.nan
  /\ k10 >= 0
  /\ k10 % 10 = 0
  /\ (k10 \div 10) + 1 <= Len(list)

\* list[idx - 1] is truthy: an own element that is a non-empty string
truthyElement(list, idx) ==
  hasElement(list, idx) /\ list[idx.x10 \div 10] # <<>>

\* a variant of splice that starts at idx instead of idx - 1
spliceAtIdx(list, idx) ==
  LET rel == truncate(idx.x10)
      len == Len(list)
      start == IF rel < 0
               THEN (IF len + rel > 0 THEN len + rel ELSE 0)
               ELSE (IF rel < len THEN rel ELSE len)
      cnt == IF len - start < 1 THEN len - start ELSE 1
  IN <<SubSeq(list, start + 1, start + cnt),
       SubSeq(list, 1, start) \o SubSeq(list, start + cnt + 1, len)>>

\* list.splice(idx - 1, 1): <<removed items, remaining list>>
splice(list, idx) ==
  LET rel == truncate(idx.x10 - 10)
      len == Len(list)
      start == IF rel < 0
               THEN (IF len + rel > 0 THEN len + rel ELSE 0)
               ELSE (IF rel < len THEN rel ELSE len)
      cnt == IF len - start < 1 THEN len - start ELSE 1
  IN <<SubSeq(list, start + 1, start + cnt),
       SubSeq(list, 1, start) \o SubSeq(list, start + cnt + 1, len)>>

(***************************************************************************)
(* Outbound messages.  A rendered list is a sequence of lines <<n, text>>  *)
(* for "n. text"; the placeholder line has n = 0.                          *)
(***************************************************************************)
Placeholder == <<0, <<"_(empty)_">>>>

\* a variant that numbers the lines from 0
formatListFromZero(isDefined, list) ==
  IF ~isDefined \/ Len(list) = 0 THEN <<Placeholder>>
  ELSE [i \in 1..Len(list) |-> <<i - 1, list[i]>>]

\* formatList (part_000) and prettyList (index.js) are the same function
formatList(isDefined, list) ==
  IF ~isDefined \/ Len(list) = 0 THEN <<Placeholder>>
  ELSE [i \in 1..Len(list) |-> <<i, list[i]>>]

render(db, list) == formatList(defined(db, list), db[list])

Msg(kind, list, idx, old, new, body) ==
  [kind |-> kind, list |-> list, idx |-> idx, old |-> old, new |-> new,
   body |-> body]

NoMsg == Msg("none", "", NaN, <<>>, <<>>, <<>>)

Plain(kind) == Msg(kind, "", NaN, <<>>, <<>>, <<>>)

ErrorKinds ==
  {"usageView", "usageAdd", "noTask", "usageEdit", "usageRemove",
   "outOfRange", "unknown"}

UsageKinds == {"usageView", "usageAdd", "noTask", "usageEdit", "usageRemove"}

ConfirmKinds == {"added", "edited", "removed"}

(***************************************************************************)
(* handleCommand after the load, as a function of the command text and the *)
(* loaded document: whether it throws, whether it calls save, the          *)
(* in-memory document and the message handed to sendTelegram.              *)
(***************************************************************************)
Outcome(throws, save, db, msg) ==
  [throws |-> throws, save |-> save, db |-> db, msg |-> msg]

Reply(db, msg) == Outcome(FALSE, FALSE, db, msg)

Throw(db) == Outcome(TRUE, FALSE, db, NoMsg)

\* const v = x; F(v): x is evaluated once and its value handed to F
with(x, F(_)) == CHOOSE y \in {F(v) : v \in {x}} : TRUE

parse(text) == with(trim(text), LAMBDA t : split(t))

command(text) == toLowerCase(parse(text)[1])

cmdLists(db) ==
  Reply(db, Msg("lists", "", NaN, <<>>, <<>>,
                render(db, "weekday") \o render(db, "weekend")))

\* a variant of /view that writes the document back
cmdViewSaving(parts, db) ==
  LET list == at(parts, 1) IN
  IF ~validList(list) THEN Reply(db, Plain("usageView"))
  ELSE Outcome(FALSE, TRUE, db,
               Msg("view", list[1], NaN, <<>>, <<>>, render(db, list[1])))

cmdView(parts, db) ==
  LET list == at(parts, 1) IN
  IF ~validList(list) THEN Reply(db, Plain("usageView"))
  ELSE Reply(db, Msg("view", list[1], NaN, <<>>, <<>>, render(db, list[1])))

\* part_000: /add
cmdAdd(parts, db) ==
  LET list == at(parts, 1)
      task == trim(join(slice(parts, 2)))
  IN IF ~validList(list) \/ task = <<>> THEN Reply(db, Plain("usageAdd"))
     ELSE IF ~defined(db, list[1]) THEN Throw(db)
     ELSE Outcome(FALSE, TRUE,
                  [db EXCEPT ![list[1]] = push(@, task)],
                  Msg("added", list[1], NaN, <<>>, task, <<>>))

\* a variant of the edit that always overwrites the first entry
editFirst(list, idx, newText, db) ==
  IF ~defined(db, list) THEN Throw(db)
  ELSE IF ~truthyElement(db[list], idx) THEN Reply(db, Plain("outOfRange"))
  ELSE Outcome(FALSE, TRUE,
               [db EXCEPT ![list] = [@ EXCEPT ![1] = newText]],
               Msg("edited", list, idx, db[list][1], newText, <<>>))

\* the part of /edit after the argument validation
editAt(list, idx, newText, db) ==
  IF ~defined(db, list) THEN Throw(db)
  ELSE IF ~truthyElement(db[list], idx) THEN Reply(db, Plain("outOfRange"))
  ELSE LET i == idx.x10 \div 10 IN
       Outcome(FALSE, TRUE,
               [db EXCEPT ![list] = [@ EXCEPT ![i] = newText]],
               Msg("edited", list, idx, db[list][i], newText, <<>>))

\* part_000: /edit
cmdEdit(parts, db) ==
  LET list == at(parts, 1)
      idx == Number(at(parts, 2))
      newText == trim(join(slice(parts, 3)))
  IN IF ~validList(list) \/ falsyNumber(idx) \/ newText = <<>>
     THEN Reply(db, Plain("usageEdit"))
     ELSE editAt(list[1], idx, newText, db)

\* the part of /remove after the argument validation: the save is called
\* before the result of splice is looked at
removeAt(list, idx, db) ==
  IF ~defined(db, list) THEN Throw(db)
  ELSE LET r == splice(db[list], idx) IN
       Outcome(FALSE, TRUE,
               [db EXCEPT ![list] = r[2]],
               IF Len(r[1]) > 0
               THEN Msg("removed", list, NaN, r[1][1], <<>>, <<>>)
               ELSE Plain("outOfRange"))

\* part_000: /remove
cmdRemove(parts, db) ==
  LET list == at(parts, 1)
      idx == Number(at(parts, 2))
  IN IF ~validList(list) \/ falsyNumber(idx)
     THEN Reply(db, Plain("usageRemove"))
     ELSE removeAt(list[1], idx, db)

\* part_000: switch (cmd)
switch(parts, db) ==
  LET cmd == toLowerCase(parts[1])
  IN CASE cmd = <<"/help">> -> Reply(db, Plain("help"))
       [] cmd = <<"/lists">> -> cmdLists(db)
       [] cmd = <<"/view">> -> cmdView(parts, db)
       [] cmd = <<"/add">> -> cmdAdd(parts, db)
       [] cmd = <<"/edit">> -> cmdEdit(parts, db)
       [] cmd = <<"/remove">> -> cmdRemove(parts, db)
       [] OTHER -> Reply(db, Plain("unknown"))

\* part_000: handleCommand from the parsing on, given the loaded document
handleCommand(text, db) ==
  with(parse(text), LAMBDA parts : switch(parts, db))

(***************************************************************************)
(* index.js: the arguments are validated before db.read(), and /help, a    *)
(* usage error and an unknown command answer without reading.              *)
(***************************************************************************)
lowdbAddArgs(parts) ==
  IF ~validList(at(parts, 1)) THEN Plain("usageAdd")
  ELSE IF trim(join(slice(parts, 2))) = <<>> THEN Plain("noTask")
  ELSE NoMsg

lowdbEditArgs(parts) ==
  LET idx == Number(at(parts, 2)) IN
  IF \/ ~validList(at(parts, 1))
     \/ ~isInteger(idx)
     \/ idx.x10 < 10
     \/ trim(join(slice(parts, 3))) = <<>>
  THEN Plain("usageEdit") ELSE NoMsg

lowdbRemoveArgs(parts) ==
  LET idx == Number(at(parts, 2)) IN
  IF ~validList(at(parts, 1)) \/ ~isInteger(idx) \/ idx.x10 < 10
  THEN Plain("usageRemove") ELSE NoMsg

\* index.js: the message sent without reading the database, NoMsg when the
\* command goes on to db.read()
lowdbEarly(parts) ==
  LET cmd == toLowerCase(parts[1])
  IN CASE cmd = <<"/help">> -> Plain("help")
       [] cmd = <<"/lists">> -> NoMsg
       [] cmd = <<"/view">> ->
            IF validList(at(parts, 1)) THEN NoMsg ELSE Plain("usageView")
       [] cmd = <<"/add">> -> lowdbAddArgs(parts)
       [] cmd = <<"/edit">> -> lowdbEditArgs(parts)
       [] cmd = <<"/remove">> -> lowdbRemoveArgs(parts)
       [] OTHER -> Plain("unknown")

lowdbEarlyReply(text) == with(parse(text), LAMBDA parts : lowdbEarly(parts))

\* index.js: handleCommand after db.read() (arguments already validated)
lowdbSwitch(parts, db) ==
  LET cmd == toLowerCase(parts[1])
      list == at(parts, 1)[1]
  IN CASE cmd = <<"/lists">> -> cmdLists(db)
       [] cmd = <<"/view">> -> cmdView(parts, db)
       [] cmd = <<"/add">> ->
            IF ~defined(db, list) THEN Throw(db)
            ELSE LET task == trim(join(slice(parts, 2))) IN
                 Outcome(FALSE, TRUE, [db EXCEPT ![list] = push(@, task)],
                         Msg("added", list, NaN, <<>>, task, <<>>))
       [] cmd = <<"/edit">> ->
            editAt(list, Number(at(parts, 2)),
                   trim(join(slice(parts, 3))), db)
       [] cmd = <<"/remove">> -> removeAt(list, Number(at(parts, 2)), db)
       [] OTHER -> Reply(db, Plain("unknown"))

lowdbAfterRead(text, db) ==
  with(parse(text), LAMBDA parts : lowdbSwitch(parts, db))

(***************************************************************************)
(* Storage client.                                                         *)
(***************************************************************************)
\* part_000 getData: the outcomes of the fetch are "record" (a JSON body
\* with a truthy record), "norecord" (a JSON body without one, such as an
\* error payload) and "throw" (fetch or res.json() rejects)
getData(res, remote) == IF res = "record" THEN remote ELSE DefaultDoc

\* a variant of the save that merges: entries of the remote lists that the
\* saved lists lack are kept
RECURSIVE missingFrom(_, _)
missingFrom(list, kept) ==
  IF list = <<>> THEN <<>>
  ELSE IF \E i \in 1..Len(kept) : kept[i] = Head(list)
       THEN missingFrom(Tail(list), kept)
       ELSE <<Head(list)>> \o missingFrom(Tail(list), kept)

saveDataMerging(ok, data, remote) ==
  IF ok
  THEN [data EXCEPT !.weekday = missingFrom(remote.weekday, @) \o @,
                    !.weekend = missingFrom(remote.weekend, @) \o @]
  ELSE remote

\* part_000 saveData: the PUT replaces the whole remote document when it
\* succeeds; a failure is logged and swallowed
saveData(ok, data, remote) == IF ok THEN data ELSE remote

\* index.js initDB: db.data = db.data || { weekday: [], weekend: [] }
initDB(fileExists, file) == IF fileExists THEN file ELSE DefaultDoc

\* index.js db.read(): db.data becomes the content of db.json
dbRead(file) == file

\* the document a load hands to its caller in each variant
load(v, res, remote) ==
  IF v = "jsonbin" THEN getData(res, remote) ELSE dbRead(remote)

LoadResults == {"record", "norecord", "throw"}

\* what a load handed to its caller: the stored record, or a substitute
loadKind(res) == IF res = "record" THEN "record" ELSE "failed"

\* outcomes of the load in each variant: db.read() returns the file's
\* content or rejects
loadResults(v) == IF v = "jsonbin" THEN LoadResults ELSE {"record", "throw"}

(***************************************************************************)
(* Senders and webhook updates.                                            *)
(***************************************************************************)
\* process.env.CHAT_ID
CHAT_ID == "42"

Owner == [digits |-> "42"]

Stranger == [digits |-> "7"]

\* String(fromId)
String(id) == id.digits

\* a variant of the identity check that lets everyone in
authorizedAnyone(from) == String(from) # ""

authorized(from) == String(from) = CHAT_ID

words(ws) == join([i \in 1..Len(ws) |-> <<ws[i]>>])

Update(hasText, text, from) ==
  [hasText |-> hasText, text |-> text, from |-> from]

(***************************************************************************)
(* Requests.  A slot holds one webhook request from its arrival to its     *)
(* HTTP response; loaded, the counters and the outcomes are history of the *)
(* request kept for the properties.  raced records that another request's  *)
(* save took effect between this request's load and its save; wrote, that  *)
(* the request's save changed the stored document.                         *)
(***************************************************************************)
IdleReq ==
  [pc |-> "idle", hasText |-> FALSE, text |-> <<>>, from |-> Owner,
   loaded |-> DefaultDoc, db |-> DefaultDoc, msg |-> NoMsg,
   nLoad |-> 0, nSave |-> 0, loadRes |-> "none", saveRes |-> "none",
   status |-> 0, body |-> "", nResp |-> 0, raced |-> FALSE,
   wrote |-> FALSE]

\* an instant: the day of the week (0 = Sunday) and the minute of the day
\* in UTC, as new Date() holds it
Instant(day, min) == [day |-> day, min |-> min]

IdleDig ==
  [pc |-> "idle", trigger |-> "", now |-> Instant(0, 0), day |-> "",
   listType |-> "", hasList |-> TRUE, msg |-> NoMsg, loadRes |-> "none",
   status |-> 0]

active(r) == req[r].pc \in {"load", "save", "send"}

isAdd(text) == command(text) = <<"/add">>

\* adds accepted whose load has not resolved yet
pendingAdds ==
  Cardinality({s \in Slots : req[s].pc = "load" /\ isAdd(req[s].text)})

\* the longest version of list l that is stored or about to be stored
longest(l) ==
  LET lens == {Len(store[l])}
                \cup {Len(req[s].db[l]) : s \in {t \in Slots : req[t].pc = "save"}}
  IN CHOOSE n \in lens : \A m \in lens : m <= n

\* the environment stops sending /add when a list could outgrow MaxLen
room(upd) ==
  (upd.hasText /\ isAdd(upd.text)) =>
     \A l \in Lists : longest(l) + pendingAdds < MaxLen

\* res.status(status).send(body)
respond(q, status, body) ==
  [q EXCEPT !.pc = "done", !.status = status, !.body = body,
            !.nResp = @ + 1]

\* sendTelegram(msg) is called: the request waits for the send
sending(q, msg) == [q EXCEPT !.pc = "send", !.msg = msg]

\* the steps of handleCommand from the resolution of the load to the next
\* await (save or send) or to the exception
afterLoad(q, out) ==
  IF out.throws THEN respond(q, 500, "error")
  ELSE IF out.save
       THEN [q EXCEPT !.pc = "save", !.db = out.db, !.msg = out.msg,
                      !.nSave = @ + 1]
       ELSE sending([q EXCEPT !.db = out.db], out.msg)

\* a variant of the webhook that hands an update without text to the
\* handler as an empty command line
arriveUnchecked(v, upd) ==
  LET q == [IdleReq EXCEPT !.hasText = upd.hasText, !.text = upd.text,
                           !.from = upd.from]
      loading == [q EXCEPT !.pc = "load", !.nLoad = 1]
  IN IF ~authorized(upd.from)
     THEN respond(q, 200, IF v = "jsonbin" THEN "ok" ELSE "ignored")
     ELSE IF v = "jsonbin" \/ ~upd.hasText THEN loading
     ELSE IF lowdbEarlyReply(upd.text) # NoMsg
          THEN sending(q, lowdbEarlyReply(upd.text))
     ELSE loading

\* POST /webhook up to the first await
arrive(v, upd) ==
  LET q == [IdleReq EXCEPT !.hasText = upd.hasText, !.text = upd.text,
                           !.from = upd.from]
      loading == [q EXCEPT !.pc = "load", !.nLoad = 1]
  IN IF ~upd.hasText THEN respond(q, 200, "ok")
     ELSE IF ~authorized(upd.from)
          THEN respond(q, 200, IF v = "jsonbin" THEN "ok" ELSE "ignored")
     ELSE IF v = "jsonbin" THEN loading
     ELSE IF lowdbEarlyReply(upd.text) # NoMsg
          THEN sending(q, lowdbEarlyReply(upd.text))
     ELSE loading

Webhook(r, upd) ==
  /\ req[r].pc = "idle"
  /\ room(upd)
  /\ req' = [req EXCEPT ![r] = arrive(variant, upd)]
  /\ UNCHANGED <<variant, store, dig, wq>>

\* handleCommand from the resolution of the load of request q0
resume(v, q0, res, remote) ==
  LET q == [q0 EXCEPT !.loadRes = loadKind(res)]
      db == load(v, res, remote)
      ql == [q EXCEPT !.loaded = db]
  IN IF v = "jsonbin" THEN afterLoad(ql, handleCommand(q.text, db))
     ELSE IF res = "throw" THEN respond(q, 500, "error")
     ELSE afterLoad(ql, lowdbAfterRead(q.text, db))

\* a variant in which a load resolves only when no other request is in
\* flight, as if the handlers held a lock around the document
LoadDoneLocked(r, res) ==
  /\ req[r].pc = "load"
  /\ \A s \in Slots \ {r} : ~active(s)
  /\ res \in loadResults(variant)
  /\ \E next \in {resume(variant, req[r], res, store)} :
        /\ req' = [req EXCEPT ![r] = next]
        /\ wq' = IF variant = "lowdb" /\ next.pc = "save"
                 THEN Append(wq, r) ELSE wq
  /\ UNCHANGED <<variant, store, dig>>

\* the load of request r resolves with outcome res
LoadDone(r, res) ==
  /\ req[r].pc = "load"
  /\ res \in loadResults(variant)
  /\ \E next \in {resume(variant, req[r], res, store)} :
        /\ req' = [req EXCEPT ![r] = next]
        /\ wq' = IF variant = "lowdb" /\ next.pc = "save"
                 THEN Append(wq, r) ELSE wq
  /\ UNCHANGED <<variant, store, dig>>

\* the save of request r resolves; lowdb writes the file in the order of
\* the calls and db.write() rejects when the write fails
SaveDone(r, ok) ==
  /\ req[r].pc = "save"
  /\ variant = "lowdb" => Head(wq) = r
  /\ store' = saveData(ok, req[r].db, store)
  /\ wq' = IF variant = "lowdb" THEN Tail(wq) ELSE wq
  /\ LET q == [req[r] EXCEPT !.saveRes = IF ok THEN "ok" ELSE "failed",
                             !.wrote = (store' # store)]
     IN req' = [s \in Slots |->
                  IF s = r
                  THEN (IF variant = "lowdb" /\ ~ok
                        THEN respond(q, 500, "error")
                        ELSE sending(q, q.msg))
                  ELSE IF ok /\ req[s].pc = "save"
                       THEN [req[s] EXCEPT !.raced = TRUE]
                  ELSE req[s]]
  /\ UNCHANGED <<variant, dig>>

\* sendTelegram resolves (a failed send is logged and swallowed, so both
\* outcomes continue alike), and the webhook answers
SendResults == {"settled", "notJson"}

\* outcomes of sendTelegram seen by its caller. part_000 awaits fetch inside
\* the try and drops the result; index.js returns res.json() without awaiting
\* it, so a reply body that is not JSON rejects past the catch
sendResults(v) == IF v = "jsonbin" THEN {"settled"} ELSE SendResults

SendDone(r, res) ==
  /\ req[r].pc = "send"
  /\ res \in sendResults(variant)
  /\ req' = [req EXCEPT ![r] = IF res = "notJson"
                                THEN respond(@, 500, "error")
                                ELSE respond(@, 200, "ok")]
  /\ UNCHANGED <<variant, store, dig, wq>>

\* the response has gone out: the slot is free for the next request
Finish(r) ==
  /\ req[r].pc = "done"
  /\ req' = [req EXCEPT ![r] = IdleReq]
  /\ UNCHANGED <<variant, store, dig, wq>>

(***************************************************************************)
(* Daily digest: GET / in both variants, the 10:00 timer in part_000.      *)
(***************************************************************************)
Days ==
  {"Monday", "Tuesday", "Wednesday", "Thursday", "Friday", "Saturday",
   "Sunday"}

\* the instants at which a digest runs: every day of the week, at midnight,
\* on either side of 18:30 UTC (midnight in Asia/Kolkata) and at 23:59 UTC
Instants ==
  {Instant(d, m) : d \in 0..6, m \in {0, 1109, 1110, 1439}}

DayNames ==
  <<"Sunday", "Monday", "Tuesday", "Wednesday", "Thursday", "Friday",
    "Saturday">>

\* a variant that reads the day of the week in UTC
utcDay(now) == now.day

\* the day of the week of an instant in the timezone Asia/Kolkata, which is
\* 5 hours 30 minutes ahead of UTC all year
kolkataDay(now) == (now.day + (now.min + 330) \div 1440) % 7

\* toLocaleString("en-US", { timeZone: "Asia/Kolkata", weekday: "long" })
weekdayLong(now) == DayNames[kolkataDay(now) + 1]

\* getListTypeByDay (part_000) and istDayType (index.js), given the name of
\* the current day in Asia/Kolkata
getListTypeByDay(day) ==
  IF day = "Saturday" \/ day = "Sunday" THEN "weekend" ELSE "weekday"

digestMsg(v, trigger, listType, db) ==
  LET body == render(db, listType) IN
  IF v = "lowdb" \/ Len(db[listType]) > 0
  THEN Msg("digest", listType, NaN, <<>>, <<>>, body)
  ELSE Msg(IF trigger = "get" THEN "noTasks" ELSE "noTasksCron",
           listType, NaN, <<>>, <<>>, <<>>)

DigestStart(trigger) ==
  /\ dig.pc = "idle"
  /\ trigger = "cron" => variant = "jsonbin"
  /\ dig' = [IdleDig EXCEPT !.pc = "load", !.trigger = trigger]
  /\ UNCHANGED <<variant, store, req, wq>>

\* the digest's load resolves; part_000 reads list.length of an undefined
\* list (the handler rejects), index.js falls back to []
DigestLoadDone(res, now) ==
  /\ dig.pc = "load"
  /\ res \in loadResults(variant)
  /\ LET db == load(variant, res, store)
         day == weekdayLong(now)
         listType == getListTypeByDay(day)
         d == [dig EXCEPT !.loadRes = loadKind(res), !.now = now,
                          !.day = day,
                          !.listType = listType,
                          !.hasList = defined(db, listType)]
     IN dig' = IF variant = "lowdb" /\ res = "throw"
               THEN [d EXCEPT !.pc = "failed"]
               ELSE IF variant = "jsonbin" /\ ~defined(db, listType)
               THEN [d EXCEPT !.pc = "failed"]
               ELSE [d EXCEPT !.pc = "send",
                              !.msg = digestMsg(variant, d.trigger,
                                                listType, db)]
  /\ UNCHANGED <<variant, store, req, wq>>

DigestSendDone(res) ==
  /\ dig.pc = "send"
  /\ res \in sendResults(variant)
  /\ dig' = IF res = "notJson"
            THEN [dig EXCEPT !.pc = "failed"]
            ELSE [dig EXCEPT !.pc = "done",
                             !.status = IF dig.trigger = "get" THEN 200
                                        ELSE 0]
  /\ UNCHANGED <<variant, store, req, wq>>

DigestFinish ==
  /\ dig.pc \in {"done", "failed"}
  /\ dig' = IdleDig
  /\ UNCHANGED <<variant, store, req, wq>>

(***************************************************************************)
(* Inputs and specifications.                                              *)
(***************************************************************************)
\* documents found in the store when the service starts: the default
\* document, and a record that lacks the weekend field
InitDocs ==
  {DefaultDoc, Doc({"weekday"}, <<>>, <<>>)}

InitWith(docs) ==
  /\ variant \in {"jsonbin", "lowdb"}
  /\ store \in {initDB(TRUE, d) : d \in docs}
  /\ req = [s \in Slots |-> IdleReq]
  /\ dig = IdleDig
  /\ wq = <<>>

Updates(lines, strangerLines) ==
  {Update(TRUE, t, Owner) : t \in lines}
    \cup {Update(TRUE, t, Stranger) : t \in strangerLines}
    \cup {Update(FALSE, <<>>, Owner)}

\* requests are interchangeable: a new one takes the lowest free slot
freeSlot(r) == req[r].pc = "idle" /\ \A s \in Slots : s < r => req[s].pc # "idle"

\* nothing is in flight
quiet == dig.pc = "idle" /\ \A s \in Slots : req[s].pc = "idle"

(***************************************************************************)
(* Spec: webhook requests overlap freely at their awaits.                  *)
(***************************************************************************)
RaceLines ==
  {words(<<"/add", "weekday", "a">>),
   words(<<"/add", "weekday", "b">>),
   words(<<"/edit", "weekday", "1", "b">>),
   words(<<"/remove", "weekday", "1">>),
   words(<<"/remove", "weekday", "5">>),
   words(<<"/view", "weekday">>)}

Init == InitWith({DefaultDoc})

Next ==
  \/ \E r \in Slots,
        upd \in Updates(RaceLines, {words(<<"/add", "weekday", "a">>)}) :
        freeSlot(r) /\ Webhook(r, upd)
  \/ \E r \in Slots, res \in LoadResults : LoadDone(r, res)
  \/ \E r \in Slots, ok \in BOOLEAN : SaveDone(r, ok)
  \/ \E r \in Slots, res \in SendResults : SendDone(r, res)
  \/ \E r \in Slots : Finish(r)

Spec == Init /\ [][Next]_vars

(***************************************************************************)
(* SpecSeq: every request and digest finishes before the next one starts.  *)
(***************************************************************************)
SeqLines ==
  {words(<<"/help">>),
   words(<<"/lists">>),
   words(<<"/foo">>),
   words(<<"/view", "weekday">>),
   words(<<"/view", "weekend">>),
   words(<<"/view">>),
   words(<<"/add", "weekday", "a">>),
   words(<<"/add", "weekday", "b">>),
   words(<<"/add", "weekend", "b">>),
   words(<<"/add", "weekday", "a", "b">>),
   words(<<"/add", "weekday">>),
   words(<<"/add", "someday", "a">>),
   words(<<"/ADD", "weekday", "a">>),
   <<"/add", SP, SP, "weekday", SP, "a">>,
   <<"/add", SP, "weekday", SP, "a", SP, SP, "b">>,
   <<"/add", TAB, "weekday", TAB, "a">>,
   words(<<"/edit", "weekday", "1", "b">>),
   words(<<"/edit", "weekday", "2", "a">>),
   words(<<"/edit", "weekday", "3", "a">>),
   words(<<"/edit", "weekday", "5", "b">>),
   words(<<"/edit", "weekday", "0", "b">>),
   words(<<"/edit", "weekday", "1.5", "b">>),
   words(<<"/edit", "weekday", "-1", "b">>),
   words(<<"/edit", "weekday", "x", "b">>),
   words(<<"/edit", "weekday", "1">>),
   words(<<"/edit", "weekend", "1", "a">>),
   words(<<"/remove", "weekday", "1">>),
   words(<<"/remove", "weekday", "2">>),
   words(<<"/remove", "weekday", "3">>),
   words(<<"/remove", "weekday", "5">>),
   words(<<"/remove", "weekday", "0">>),
   words(<<"/remove", "weekday", "1.5">>),
   words(<<"/remove", "weekday", "-1">>),
   words(<<"/remove", "weekday", "x">>),
   words(<<"/remove", "weekday">>),
   words(<<"/remove", "weekend", "1">>)}

InitSeq == InitWith(InitDocs)

NextSeq ==
  \/ \E r \in Slots, upd \in Updates(SeqLines, SeqLines) :
        quiet /\ freeSlot(r) /\ Webhook(r, upd)
  \/ \E r \in Slots, res \in LoadResults : LoadDone(r, res)
  \/ \E r \in Slots, ok \in BOOLEAN : SaveDone(r, ok)
  \/ \E r \in Slots, res \in SendResults : SendDone(r, res)
  \/ \E r \in Slots : Finish(r)
  \/ \E trigger \in {"get", "cron"} : quiet /\ DigestStart(trigger)
  \/ \E res \in LoadResults, now \in Instants : DigestLoadDone(res, now)
  \/ \E res \in SendResults : DigestSendDone(res)
  \/ DigestFinish

SpecSeq == InitSeq /\ [][NextSeq]_vars

(***************************************************************************)
(* SpecStall: requests and the digest overlap, and a network call of the   *)
(* request in slot 1 may never return.  The network calls are the fetches  *)
(* of getData, saveData and sendTelegram in part_000 and the fetch of      *)
(* sendTelegram in index.js; db.read() and db.write() of index.js work on  *)
(* a local file and return.  The calls of the request in slot 2 and of the *)
(* digest return.  The model is kept to one mutating and one reading       *)
(* command and one instant.                                                *)
(***************************************************************************)
StallLines ==
  {words(<<"/add", "weekday", "a">>),
   words(<<"/view", "weekday">>)}

StallInstants == {Instant(1, 0)}

\* request r waits for a fetch
networkCall(r) ==
  IF variant = "jsonbin" THEN active(r) ELSE req[r].pc = "send"

NextStall ==
  \/ \E r \in Slots, t \in StallLines : Webhook(r, Update(TRUE, t, Owner))
  \/ \E r \in Slots, res \in LoadResults : LoadDone(r, res)
  \/ \E r \in Slots, ok \in BOOLEAN : SaveDone(r, ok)
  \/ \E r \in Slots, res \in SendResults : SendDone(r, res)
  \/ \E r \in Slots : Finish(r)
  \/ \E trigger \in {"get", "cron"} : DigestStart(trigger)
  \/ \E res \in LoadResults, now \in StallInstants : DigestLoadDone(res, now)
  \/ \E res \in SendResults : DigestSendDone(res)
  \/ DigestFinish

\* the steps of the request in slot r after its arrival
stepsOf(r) ==
  \/ \E res \in LoadResults : LoadDone(r, res)
  \/ \E ok \in BOOLEAN : SaveDone(r, ok)
  \/ \E res \in SendResults : SendDone(r, res)

\* the steps of a digest after its start
digestSteps ==
  \/ \E res \in LoadResults, now \in StallInstants : DigestLoadDone(res, now)
  \/ \E res \in SendResults : DigestSendDone(res)

\* the file operations of index.js for the request in slot r
fileSteps(r) ==
  /\ variant = "lowdb"
  /\ \/ \E res \in LoadResults : LoadDone(r, res)
     \/ \E ok \in BOOLEAN : SaveDone(r, ok)

FairStall ==
  /\ WF_vars(stepsOf(2))
  /\ WF_vars(digestSteps)
  /\ WF_vars(fileSteps(1))

SpecStall == Init /\ [][NextStall]_vars /\ FairStall

TypeOK ==
  /\ \A l \in Lists : Len(store[l]) <= MaxLen
  /\ \A r \in Slots : \A l \in Lists : Len(req[r].db[l]) <= MaxLen

(***************************************************************************)
(* Vocabulary of the properties.  The command lines are read here by       *)
(* position, independently of split/join/Number: "/add list task",         *)
(* "/edit list index text" and "/remove list index" with single spaces.    *)
(***************************************************************************)
rest(text, n) == SubSeq(text, n, Len(text))

clean(t) == t # <<>> /\ t[1] \notin WhiteSpace /\ t[Len(t)] \notin WhiteSpace

spaced(text, n) ==
  /\ Len(text) >= n
  /\ \A i \in 1..n : (i % 2 = 0) <=> (text[i] = SP)

isAddLine(text) ==
  spaced(text, 5) /\ text[1] = "/add" /\ text[3] \in Lists
    /\ clean(rest(text, 5))

isEditLine(text) ==
  spaced(text, 7) /\ text[1] = "/edit" /\ text[3] \in Lists
    /\ text[5] # TAB /\ clean(rest(text, 7))

isRemoveLine(text) ==
  spaced(text, 5) /\ Len(text) = 5 /\ text[1] = "/remove"
    /\ text[3] \in Lists /\ text[5] # TAB

\* the index arguments that denote an integer >= 1
positions == [c \in {"1", "2", "3", "5"} |->
                CASE c = "1" -> 1 [] c = "2" -> 2 [] c = "3" -> 3 [] c = "5" -> 5]

isPosition(c) == c \in DOMAIN positions

\* request r was sent by the authorized sender and has been answered
settled(r) ==
  req[r].pc = "done" /\ req[r].hasText /\ authorized(req[r].from)

\* the named list existed in the loaded record, and load and save worked
faultless(r, l) ==
  /\ req[r].loadRes = "record"
  /\ defined(req[r].loaded, l)
  /\ req[r].saveRes # "failed"

\* what a command does when its load returns db
rerun(v, text, db) ==
  IF v = "jsonbin" THEN handleCommand(text, db)
  ELSE IF lowdbEarlyReply(text) # NoMsg
       THEN Reply(db, lowdbEarlyReply(text))
  ELSE lowdbAfterRead(text, db)

without(list, i) == SubSeq(list, 1, i - 1) \o SubSeq(list, i + 1, Len(list))

\* the text of a list: "n. entry" lines, or the placeholder alone
rendering(list) ==
  IF list = <<>> THEN <<Placeholder>>
  ELSE [i \in 1..Len(list) |-> <<i, list[i]>>]

(***************************************************************************)
(* C1.  When two mutating commands overlap so that both have loaded before *)
(* either saves, the save that lands second stores exactly the in-memory   *)
(* document of its own command: the result of applying that command alone  *)
(* to the snapshot it loaded before the first save.  The first saver's     *)
(* change is not merged in; a second overlapping /add leaves the list one  *)
(* longer than the common snapshot, not two.                               *)
(***************************************************************************)
C1_LastWriteWins ==
  [][\A r \in Slots :
       (req[r].pc = "save" /\ req[r].raced /\ req'[r].saveRes = "ok")
         => /\ store' = req[r].db
            /\ store' = rerun(variant, req[r].text, req[r].loaded).db
            /\ isAddLine(req[r].text) =>
                 store'[req[r].text[3]] =
                   Append(req[r].loaded[req[r].text[3]], rest(req[r].text, 5))]_vars

\* two overlapping adds on the empty document, both saved: one entry left
C1_Witness ==
  \E r \in Slots : \E o \in Slots \ {r} :
    /\ req[r].raced /\ req[r].saveRes = "ok" /\ req[o].saveRes = "ok"
    /\ req[r].text = words(<<"/add", "weekday", "a">>)
    /\ req[o].text = words(<<"/add", "weekday", "b">>)
    /\ req[r].loaded = DefaultDoc /\ req[o].loaded = DefaultDoc
    /\ req[r].loadRes = "record" /\ req[o].loadRes = "record"
    /\ store = req[r].db
    /\ store.weekday = <<<<"a">>>>

(***************************************************************************)
(* C2.  A message from a sender other than CHAT_ID is answered at once:    *)
(* it issues no load and no save, hands nothing to sendTelegram and the    *)
(* request never waits on storage, whatever its text.                      *)
(***************************************************************************)
C2_StrangerIgnored ==
  \A r \in Slots :
    (req[r].pc # "idle" /\ req[r].hasText /\ String(req[r].from) # CHAT_ID)
      => /\ req[r].pc = "done"
         /\ req[r].nLoad = 0
         /\ req[r].nSave = 0
         /\ req[r].loadRes = "none"
         /\ req[r].msg = NoMsg
         /\ req[r].status = 200

C2_Witness ==
  \E r \in Slots :
    /\ req[r].pc = "done" /\ req[r].from = Stranger
    /\ req[r].text = words(<<"/remove", "weekday", "1">>)
    /\ store.weekday # <<>>

(***************************************************************************)
(* C3.  An /add of a task to a list, run with no other request in flight   *)
(* (load and save working), leaves the list equal to its previous contents *)
(* followed by the task and the other list as it was; a /view of the list  *)
(* issued next renders the task on the last numbered line.                 *)
(***************************************************************************)
C3_AddAppends ==
  \A r \in Slots :
    (settled(r) /\ isAddLine(req[r].text) /\ faultless(r, req[r].text[3]))
      => LET l == req[r].text[3]
             t == rest(req[r].text, 5)
             before == req[r].loaded
             view == rerun(variant, words(<<"/view", l>>), store).msg
         IN /\ req[r].saveRes = "ok"
            /\ store[l] = before[l] \o <<t>>
            /\ Len(store[l]) = Len(before[l]) + 1
            /\ \A i \in 1..Len(before[l]) : store[l][i] = before[l][i]
            /\ \A o \in Lists \ {l} : store[o] = before[o]
            /\ req[r].msg.kind = "added" /\ req[r].msg.new = t
            /\ view.kind = "view"
            /\ view.body[Len(view.body)] = <<Len(store[l]), t>>

C3_Witness ==
  \E r \in Slots :
    /\ settled(r) /\ faultless(r, "weekday")
    /\ req[r].text = words(<<"/add", "weekday", "a", "b">>)
    /\ req[r].loaded.weekday = <<<<"b">>>>
    /\ store.weekday = <<<<"b">>, <<"a", SP, "b">>>>

(***************************************************************************)
(* C4.  /edit list i text with 1 <= i <= length replaces the entry at      *)
(* position i and nothing else; with an index that is 0, not an integer or *)
(* past the end it issues no save, leaves the document as loaded and       *)
(* answers with an error message.                                          *)
(***************************************************************************)
C4_EditFrame ==
  \A r \in Slots :
    (settled(r) /\ isEditLine(req[r].text))
      => LET l == req[r].text[3]
             c == req[r].text[5]
             t == rest(req[r].text, 7)
             before == req[r].loaded
             known == req[r].loadRes = "record" /\ defined(before, l)
         IN /\ (faultless(r, l) /\ isPosition(c)
                  /\ positions[c] <= Len(before[l]))
                 => /\ req[r].saveRes = "ok"
                    /\ Len(store[l]) = Len(before[l])
                    /\ store[l][positions[c]] = t
                    /\ \A i \in 1..Len(before[l]) :
                         i # positions[c] => store[l][i] = before[l][i]
                    /\ \A o \in Lists \ {l} : store[o] = before[o]
                    /\ req[r].msg.kind = "edited"
                    /\ req[r].msg.old = before[l][positions[c]]
            /\ (/\ req[r].loadRes = "record" => defined(before, l)
                /\ \/ ~isPosition(c)
                   \/ known /\ positions[c] > Len(before[l]))
                 => /\ req[r].nSave = 0
                    /\ req[r].db = before
                    /\ req[r].loadRes = "record" => store = before
                    /\ req[r].msg.kind \in ErrorKinds

\* an edit of position 2 of two entries took effect
C4_Witness ==
  \E r \in Slots :
    /\ settled(r) /\ faultless(r, "weekday")
    /\ req[r].text = words(<<"/edit", "weekday", "2", "a">>)
    /\ req[r].loaded.weekday = <<<<"b">>, <<"b">>>>
    /\ store.weekday = <<<<"b">>, <<"a">>>>

\* /edit weekday 5 on a list of two entries was refused
C4_WitnessRefused ==
  \E r \in Slots :
    /\ settled(r) /\ faultless(r, "weekday")
    /\ req[r].text = words(<<"/edit", "weekday", "5", "b">>)
    /\ Len(req[r].loaded.weekday) = 2
    /\ req[r].msg.kind = "outOfRange"

(***************************************************************************)
(* C5.  /remove list i with 1 <= i <= length deletes the entry at position *)
(* i: the list is one shorter, earlier entries stay, later entries move    *)
(* down by one; the same command issued again removes the entry that was   *)
(* at position i + 1.                                                      *)
(***************************************************************************)
C5_RemoveShifts ==
  \A r \in Slots :
    (/\ settled(r) /\ isRemoveLine(req[r].text)
     /\ faultless(r, req[r].text[3])
     /\ isPosition(req[r].text[5])
     /\ positions[req[r].text[5]] <= Len(req[r].loaded[req[r].text[3]]))
      => LET l == req[r].text[3]
             i == positions[req[r].text[5]]
             before == req[r].loaded
             again == rerun(variant, req[r].text, store)
         IN /\ req[r].saveRes = "ok"
            /\ store[l] = without(before[l], i)
            /\ Len(store[l]) = Len(before[l]) - 1
            /\ \A j \in 1..Len(store[l]) :
                 store[l][j] = IF j < i THEN before[l][j] ELSE before[l][j + 1]
            /\ \A o \in Lists \ {l} : store[o] = before[o]
            /\ req[r].msg.kind = "removed"
            /\ req[r].msg.old = before[l][i]
            /\ i + 1 <= Len(before[l]) =>
                 /\ again.msg.kind = "removed"
                 /\ again.msg.old = before[l][i + 1]
                 /\ again.db[l] = without(store[l], i)

\* the first of two entries was removed and the second moved to position 1
C5_Witness ==
  \E r \in Slots :
    /\ settled(r) /\ faultless(r, "weekday")
    /\ req[r].text = words(<<"/remove", "weekday", "1">>)
    /\ req[r].loaded.weekday = <<<<"a">>, <<"b">>>>
    /\ store.weekday = <<<<"b">>>>

(***************************************************************************)
(* C6.  For /edit and /remove an index argument that is not an integer     *)
(* >= 1 (0, -1, 1.5, non-numeric) is answered with the usage error, never  *)
(* with "Index out of range" or a confirmation, and changes no list.       *)
(* part_000 tests only !idx, so 1.5 and -1 pass the validation.            *)
(***************************************************************************)
C6_BadIndexIsUsageError ==
  \A r \in Slots :
    (/\ settled(r)
     /\ isEditLine(req[r].text) \/ isRemoveLine(req[r].text)
     /\ ~isPosition(req[r].text[5])
     /\ req[r].loaded.has = Lists)
      => /\ req[r].msg.kind \in UsageKinds
         /\ req[r].nSave = 0
         /\ req[r].db = req[r].loaded

(***************************************************************************)
(* C7.  A command of the authorized sender that changes no list performs   *)
(* no save, and one that changes a list performs exactly one.  /remove     *)
(* calls the save before it looks at what splice removed.                  *)
(***************************************************************************)
C7_SaveOnlyIfMutating ==
  \A r \in Slots :
    (settled(r) /\ req[r].status = 200)
      => /\ req[r].nSave <= 1
         /\ req[r].nSave = 1 <=> req[r].db # req[r].loaded

\* the other half of the claim: exactly one load per handled command
\* (index.js answers /help, usage errors and unknown commands unread)
C7_ExactlyOneLoad ==
  \A r \in Slots : settled(r) => req[r].nLoad = 1

(***************************************************************************)
(* C8.  /help, /lists, /view and unknown commands never call the save and  *)
(* leave the in-memory document as loaded; no step of the digest changes   *)
(* the store; the text of /view is the numbered rendering of the stored    *)
(* list alone, so a second /view with no mutation in between sends the     *)
(* same text.                                                              *)
(***************************************************************************)
readOnlyLine(text) ==
  text # <<>> /\ text[1] \in {"/help", "/lists", "/view", "/foo"}

C8_ReadOnlyState ==
  \A r \in Slots :
    (req[r].pc # "idle" /\ req[r].hasText /\ authorized(req[r].from)
       /\ readOnlyLine(req[r].text))
      => /\ req[r].nSave = 0
         /\ req[r].pc # "save"
         /\ req[r].db = req[r].loaded
         /\ (/\ req[r].pc = "done" /\ req[r].loadRes = "record"
             /\ req[r].text[1] = "/view" /\ Len(req[r].text) = 3
             /\ req[r].text[3] \in Lists /\ store = req[r].loaded)
              => LET l == req[r].text[3]
                     again == rerun(variant, req[r].text, store)
                 IN /\ req[r].msg.kind = "view"
                    /\ req[r].msg.body =
                         rendering(IF defined(store, l) THEN store[l] ELSE <<>>)
                    /\ again.msg = req[r].msg
                    /\ ~again.save /\ again.db = store

C8_ReadOnly ==
  /\ []C8_ReadOnlyState
  /\ [][dig' # dig => store' = store]_vars
  /\ [][\A r \in Slots :
          (req[r].hasText /\ readOnlyLine(req[r].text) /\ req'[r] # req[r])
            => store' = store]_vars

\* a /view of a list of two entries has been answered
C8_Witness ==
  \E r \in Slots :
    /\ settled(r) /\ req[r].loadRes = "record"
    /\ req[r].text = words(<<"/view", "weekday">>)
    /\ store = req[r].loaded
    /\ store.weekday = <<<<"a">>, <<"b">>>>
    /\ req[r].msg.body = <<<<1, <<"a">>>>, <<2, <<"b">>>>>>

\* a digest has been sent
C8_WitnessDigest == dig.pc = "done" /\ dig.msg.kind = "digest"

(***************************************************************************)
(* C9.  Persistence failures are never surfaced: a load that fails hands   *)
(* out the default document and the request goes on, and a valid /add,     *)
(* /edit or /remove always ends with its confirmation and a 200 response.  *)
(* index.js does not guard db.read() and db.write().                       *)
(***************************************************************************)
validMutation(r) ==
  LET text == req[r].text IN
  \/ isAddLine(text)
  \/ /\ isEditLine(text) \/ isRemoveLine(text)
     /\ isPosition(text[5])
     /\ positions[text[5]] <= Len(req[r].loaded[text[3]])

C9_FailuresNeverSurface ==
  \A r \in Slots :
    /\ req[r].loadRes = "failed" =>
         req[r].loaded = DefaultDoc /\ req[r].status # 500
    /\ (settled(r) /\ validMutation(r)) =>
         req[r].status = 200 /\ req[r].msg.kind \in ConfirmKinds

(***************************************************************************)
(* C10.  Every document a load hands out has both fields weekday and       *)
(* weekend, so no command and no digest works on a missing list.  getData  *)
(* substitutes the default only for a falsy record.                        *)
(***************************************************************************)
C10_BothListsPresent ==
  /\ \A r \in Slots :
       req[r].loadRes # "none" => req[r].loaded.has = Lists
  /\ dig.loadRes # "none" => dig.hasList

(***************************************************************************)
(* C11.  A command line is read token by token, the tokens being separated *)
(* by any run of blanks (spaces, tabs): it is handled exactly like the     *)
(* same tokens written with single spaces, and the task text stored by     *)
(* /add is the remaining tokens joined by one space each.  The code cuts   *)
(* at every single space only.                                             *)
(***************************************************************************)
RECURSIVE tokensAcc(_, _, _)
tokensAcc(s, cur, acc) ==
  LET flushed == IF cur = <<>> THEN acc ELSE Append(acc, cur) IN
  IF s = <<>> THEN flushed
  ELSE IF Head(s) \in WhiteSpace THEN tokensAcc(Tail(s), <<>>, flushed)
  ELSE tokensAcc(Tail(s), Append(cur, Head(s)), acc)

\* the tokens of a line, separated by runs of blanks
tokens(text) == tokensAcc(text, <<>>, <<>>)

\* the same tokens with single spaces between them
singleSpaced(text) == join(tokens(text))

C11_WhitespaceParsing ==
  \A r \in Slots :
    (settled(r) /\ req[r].status = 200 /\ req[r].loadRes = "record"
       /\ req[r].loaded.has = Lists /\ req[r].saveRes # "failed")
      => LET same == rerun(variant, singleSpaced(req[r].text), req[r].loaded)
         IN /\ req[r].msg = same.msg
            /\ req[r].nSave = (IF same.save THEN 1 ELSE 0)
            /\ req[r].nSave = 1 => req[r].db = same.db

(***************************************************************************)
(* C12.  With one command handled at a time (load and save working), an    *)
(* /add to a list followed at once by /remove of the list's new length     *)
(* leaves the document exactly as it was before the add.  On an empty list *)
(* the sequence add, edit of position 1, remove of position 1 ends with    *)
(* the empty list, and /view then renders the placeholder line alone.      *)
(***************************************************************************)
\* the decimal numeral of a position
numeralOf(n) ==
  CASE n = 0 -> "0" [] n = 1 -> "1" [] n = 2 -> "2" [] n = 3 -> "3"
    [] OTHER -> "5"

C12_AddRemoveRestores ==
  \A r \in Slots :
    (settled(r) /\ isAddLine(req[r].text) /\ faultless(r, req[r].text[3]))
      => LET l == req[r].text[3]
             t == rest(req[r].text, 5)
             before == req[r].loaded
             n == Len(store[l])
             removed == rerun(variant,
                              words(<<"/remove", l, numeralOf(n)>>), store)
             edited == rerun(variant, words(<<"/edit", l, "1", "b">>), store)
             emptied == rerun(variant, words(<<"/remove", l, "1">>),
                              edited.db)
             view == rerun(variant, words(<<"/view", l>>), emptied.db)
         IN /\ n = Len(before[l]) + 1
            /\ removed.save /\ ~removed.throws
            /\ removed.msg.kind = "removed" /\ removed.msg.old = t
            /\ removed.db = before
            /\ before[l] = <<>> =>
                 /\ edited.save /\ edited.msg.kind = "edited"
                 /\ edited.msg.old = t /\ edited.db[l] = <<<<"b">>>>
                 /\ emptied.save /\ emptied.msg.kind = "removed"
                 /\ emptied.msg.old = <<"b">>
                 /\ emptied.db = before
                 /\ view.msg.kind = "view"
                 /\ view.msg.body = <<Placeholder>>

\* an add to a list of one entry has been saved: /remove 2 is the inverse
C12_Witness ==
  \E r \in Slots :
    /\ settled(r) /\ faultless(r, "weekday") /\ req[r].status = 200
    /\ req[r].text = words(<<"/add", "weekday", "a">>)
    /\ req[r].loaded.weekday = <<<<"b">>>>
    /\ store.weekday = <<<<"b">>, <<"a">>>>
    /\ rerun(variant, words(<<"/remove", "weekday", "2">>), store).db
         = req[r].loaded

\* the scenario on the empty document
C12_WitnessEmpty ==
  \E r \in Slots :
    /\ settled(r) /\ faultless(r, "weekday") /\ req[r].status = 200
    /\ req[r].text = words(<<"/add", "weekday", "a">>)
    /\ req[r].loaded = DefaultDoc
    /\ store.weekday = <<<<"a">>>>

(***************************************************************************)
(* C13.  The digest selects "weekend" exactly when the instant at which it *)
(* runs falls on a Saturday or Sunday in Asia/Kolkata, that is from Friday *)
(* 18:30 UTC up to Sunday 18:30 UTC, and "weekday" otherwise; the message  *)
(* handed to sendTelegram is built from that list of the document the      *)
(* digest has just loaded and from nothing else.                           *)
(***************************************************************************)
\* minutes since Sunday 00:00 UTC
minuteOfWeek(now) == now.day * 1440 + now.min

kolkataWeekend(now) ==
  \/ minuteOfWeek(now) >= 5 * 1440 + 18 * 60 + 30
  \/ minuteOfWeek(now) < 18 * 60 + 30

\* the document the digest loaded; no request runs beside a digest here
digestLoaded ==
  IF dig.loadRes = "record" THEN store ELSE DefaultDoc

C13_DigestSelection ==
  dig.loadRes # "none" =>
    LET list == IF defined(digestLoaded, dig.listType)
                THEN digestLoaded[dig.listType] ELSE <<>>
    IN /\ dig.listType = (IF kolkataWeekend(dig.now) THEN "weekend"
                          ELSE "weekday")
       /\ dig.listType = "weekend" <=> dig.day \in {"Saturday", "Sunday"}
       /\ dig.pc \in {"send", "done"} =>
            /\ dig.msg.list = dig.listType
            /\ dig.msg.kind \in {"digest", "noTasks", "noTasksCron"}
            /\ dig.msg.kind = "digest" => dig.msg.body = rendering(list)
            /\ dig.msg.kind # "digest" => list = <<>> /\ dig.msg.body = <<>>
            /\ list # <<>> => dig.msg.kind = "digest"

\* a digest that ran on Friday 18:30 UTC, Saturday in Asia/Kolkata, sent the
\* weekend list while the weekday list held other entries
C13_Witness ==
  /\ dig.pc = "done" /\ dig.loadRes = "record"
  /\ dig.now = Instant(5, 1110)
  /\ dig.listType = "weekend"
  /\ store.weekend = <<<<"b">>>> /\ store.weekday # <<>>
  /\ dig.msg.body = <<<<1, <<"b">>>>>>

\* Sunday 18:30 UTC is Monday in Asia/Kolkata
C13_WitnessMonday ==
  dig.pc = "done" /\ dig.now = Instant(0, 1110) /\ dig.listType = "weekday"
    /\ dig.day = "Monday"

(***************************************************************************)
(* C14.  An update without message text is answered 200 at once: it issues *)
(* no load and no save, hands nothing to sendTelegram and changes no       *)
(* document.  A webhook request is answered once: no response before the   *)
(* handling ends, one response (200, or 500 when the handling threw) when  *)
(* it ends, and nothing more happens for the request afterwards.           *)
(***************************************************************************)
C14_TextlessState ==
  \A r \in Slots :
    /\ (req[r].pc # "idle" /\ ~req[r].hasText)
         => /\ req[r].pc = "done"
            /\ req[r].status = 200
            /\ req[r].nLoad = 0 /\ req[r].nSave = 0
            /\ req[r].loadRes = "none" /\ req[r].saveRes = "none"
            /\ req[r].msg = NoMsg
    /\ req[r].pc = "done" => req[r].nResp = 1 /\ req[r].status \in {200, 500}
    /\ req[r].pc # "done" => req[r].nResp = 0 /\ req[r].status = 0

C14_TextlessIgnored ==
  /\ []C14_TextlessState
  /\ [][\A r \in Slots :
          /\ (req[r].pc = "idle" /\ req'[r].pc # "idle" /\ ~req'[r].hasText)
               => store' = store /\ wq' = wq
          /\ req[r].pc = "done" => req'[r] \in {req[r], IdleReq}]_vars

\* an update without text was acknowledged while another request was
\* waiting for its save, and the list held an entry
C14_Witness ==
  \E r \in Slots : \E o \in Slots \ {r} :
    /\ req[r].pc = "done" /\ ~req[r].hasText /\ req[r].status = 200
    /\ req[o].pc = "save"
    /\ store.weekday # <<>>

\* a request whose handling threw was answered 500, once
C14_WitnessFailure ==
  \E r \in Slots :
    req[r].pc = "done" /\ req[r].status = 500 /\ req[r].nResp = 1

(***************************************************************************)
(* C15.  A request whose network call never returns holds back nothing     *)
(* but itself: while the request in slot 1 waits for a fetch, a webhook    *)
(* request can start in slot 2 and a digest can start; a request in slot 2 *)
(* goes through its own load, save and send and is answered; a digest     *)
(* goes through its load and send and ends.                                *)
(***************************************************************************)
C15_OthersCanStart ==
  (active(1) /\ networkCall(1))
    => /\ req[2].pc = "idle" =>
            ENABLED Webhook(2, Update(TRUE, words(<<"/view", "weekday">>),
                                      Owner))
       /\ dig.pc = "idle" => ENABLED DigestStart("get")

C15_OtherRequestEnds == active(2) ~> req[2].pc = "done"

C15_DigestEnds == dig.pc \in {"load", "send"} ~> dig.pc \in {"done", "failed"}

C15_StallIsLocal ==
  /\ []C15_OthersCanStart
  /\ C15_OtherRequestEnds
  /\ C15_DigestEnds

\* the request in slot 2 loaded, saved and was answered while the request
\* in slot 1, which arrived first, is still waiting for its save
C15_Witness ==
  /\ req[1].pc = "save" /\ networkCall(1)
  /\ req[1].loaded = DefaultDoc
  /\ req[2].pc = "done" /\ req[2].status = 200
  /\ req[2].saveRes = "ok" /\ req[2].loaded = DefaultDoc
  /\ store.weekday = <<<<"a">>>>

\* a digest was sent while the request in slot 1 is waiting for its load
C15_WitnessDigest ==
  /\ req[1].pc = "load" /\ networkCall(1)
  /\ dig.pc = "done" /\ dig.status = 200

(***************************************************************************)
(* C16.  The number printed by /view and /lists in front of an entry is    *)
(* the index /edit and /remove take for it: a list of N entries is shown   *)
(* as N lines numbered 1..N in stored order, an empty list as the          *)
(* placeholder line alone, and "/edit list k text" or "/remove list k"     *)
(* issued next, with k read off line k, acts on the entry of that line.    *)
(***************************************************************************)
\* the lines of the message that show list l
shown(msg, doc, l) ==
  IF msg.kind = "view" THEN msg.body
  ELSE LET first == IF defined(doc, "weekday") /\ Len(doc.weekday) > 0
                    THEN Len(doc.weekday) ELSE 1
       IN IF l = "weekday" THEN SubSeq(msg.body, 1, first)
          ELSE SubSeq(msg.body, first + 1, Len(msg.body))

C16_NumbersAreIndices ==
  \A r \in Slots :
    (settled(r) /\ req[r].loadRes = "record" /\ store = req[r].loaded
       /\ req[r].msg.kind \in {"view", "lists"})
      => \A l \in {m \in Lists : defined(store, m)} :
           (req[r].msg.kind = "lists" \/ req[r].msg.list = l)
             => LET lines == shown(req[r].msg, store, l) IN
                /\ store[l] = <<>> => lines = <<Placeholder>>
                /\ store[l] # <<>> =>
                     /\ Len(lines) = Len(store[l])
                     /\ \A k \in 1..Len(lines) :
                          LET n == numeralOf(lines[k][1])
                              e == lines[k][2]
                              rm == rerun(variant,
                                          words(<<"/remove", l, n>>), store)
                              ed == rerun(variant,
                                          words(<<"/edit", l, n, "c">>), store)
                          IN /\ lines[k][1] = k
                             /\ e = store[l][k]
                             /\ rm.save /\ rm.msg.kind = "removed"
                             /\ rm.msg.old = e
                             /\ rm.db[l] = without(store[l], k)
                             /\ ed.save /\ ed.msg.kind = "edited"
                             /\ ed.msg.old = e
                             /\ ed.db[l] = [store[l] EXCEPT ![k] = <<"c">>]

\* /lists has shown two weekday entries and one weekend entry
C16_Witness ==
  \E r \in Slots :
    /\ settled(r) /\ req[r].loadRes = "record" /\ store = req[r].loaded
    /\ req[r].text = words(<<"/lists">>)
    /\ store.weekday = <<<<"a">>, <<"b">>>>
    /\ store.weekend = <<<<"b">>>>
    /\ req[r].msg.body = <<<<1, <<"a">>>>, <<2, <<"b">>>>, <<1, <<"b">>>>>>

\* /view has shown the placeholder for an empty list
C16_WitnessEmpty ==
  \E r \in Slots :
    /\ settled(r) /\ req[r].loadRes = "record" /\ store = req[r].loaded
    /\ req[r].text = words(<<"/view", "weekend">>)
    /\ store.weekend = <<>> /\ store.weekday # <<>>
    /\ req[r].msg.body = <<Placeholder>>

(***************************************************************************)
(* C17.  A command that is answered with an error message (usage error,    *)
(* "Index out of range", unknown command) leaves the stored document       *)
(* alone in every interleaving: it issues no save, so it cannot write its  *)
(* loaded snapshot over what a concurrent command has saved meanwhile.     *)
(* /remove saves before it looks at what splice removed.                   *)
(***************************************************************************)
C17_ErrorsChangeNothing ==
  \A r \in Slots :
    (req[r].pc \in {"send", "done"} /\ req[r].msg.kind \in ErrorKinds)
      => ~req[r].wrote

(***************************************************************************)
(* C18.  With commands handled one at a time and every load and save       *)
(* working, each command takes the stored document to the result of the    *)
(* plain sequence model applied to it: /add appends, /edit replaces at i,  *)
(* /remove deletes at i, for an integer 1 <= i <= length, and every other  *)
(* command changes nothing; so the stored document after any sequence is   *)
(* the model applied in arrival order.  Stated for lines whose words are   *)
(* separated by one space each; part_000 lets 1.5 and -1 through as an     *)
(* index and deletes an entry the sequence model keeps.                    *)
(***************************************************************************)
\* the sequence model of one command line on a document with both lists
plain(text, doc) ==
  LET tk == tokens(text)
      op == IF tk = <<>> THEN <<>> ELSE tk[1]
      named == Len(tk) >= 2 /\ Len(tk[2]) = 1 /\ tk[2][1] \in Lists
      l == tk[2][1]
      indexed == /\ named /\ Len(tk) >= 3 /\ Len(tk[3]) = 1
                 /\ isPosition(tk[3][1])
                 /\ positions[tk[3][1]] <= Len(doc[l])
      i == positions[tk[3][1]]
  IN IF op \in {<<"/add">>, <<"/ADD">>} /\ named /\ Len(tk) >= 3
     THEN [doc EXCEPT ![l] = Append(@, join(SubSeq(tk, 3, Len(tk))))]
     ELSE IF op = <<"/edit">> /\ indexed /\ Len(tk) >= 4
     THEN [doc EXCEPT ![l] = [@ EXCEPT ![i] = join(SubSeq(tk, 4, Len(tk)))]]
     ELSE IF op = <<"/remove">> /\ indexed
     THEN [doc EXCEPT ![l] = without(@, i)]
     ELSE doc

C18_SequenceModel ==
  \A r \in Slots :
    (/\ settled(r) /\ req[r].status = 200 /\ req[r].saveRes # "failed"
     /\ singleSpaced(req[r].text) = req[r].text)
      => /\ (req[r].loadRes = "record" /\ req[r].loaded.has = Lists)
              => store = plain(req[r].text, req[r].loaded)
         /\ (req[r].loadRes = "none" /\ store.has = Lists)
              => store = plain(req[r].text, store)

(***************************************************************************)
(* C19.  With commands handled one at a time, the save of an '/add list t' *)
(* that takes effect stores every entry that was stored before it, in the  *)
(* same order, followed by t, and leaves the other list alone, whatever    *)
(* the load returned (record, no record, transport or parse error).        *)
(* getData answers a failed load with the empty document and /add saves    *)
(* that document plus t over the stored one.                               *)
(***************************************************************************)
C19_AddStep(r) ==
  LET l == req[r].msg.list
  IN (/\ req[r].pc = "save" /\ req[r].msg.kind = "added"
      /\ req'[r].saveRes = "ok" /\ store.has = Lists)
       => /\ store'.has = Lists
          /\ store'[l] = Append(store[l], req[r].msg.new)
          /\ \A o \in Lists \ {l} : store'[o] = store[o]

C19_AddKeepsEntries == [][\A r \in Slots : C19_AddStep(r)]_vars

(***************************************************************************)
(* C20.  Every stored entry is a non-empty string with no white space at   *)
(* either end, and so, whenever /edit has looked at the entry at index-1,  *)
(* it went on to edit exactly when 1 <= index <= length of the list it     *)
(* loaded.  part_000 lets a fractional index through to that test: 1.5 on  *)
(* two entries is inside the range and names no entry.                     *)
(***************************************************************************)
C20_EntriesTrimmed ==
  \A l \in store.has : \A i \in 1..Len(store[l]) :
    store[l][i] # <<>> /\ trim(store[l][i]) = store[l][i]

\* the index argument of the command line of request r
C20_Index(r) == Number(at(parse(req[r].text), 2))

C20_RangeAgrees ==
  \A r \in Slots :
    (/\ req[r].pc \in {"save", "send", "done"}
     /\ req[r].loadRes = "record"
     /\ req[r].text # <<>> /\ command(req[r].text) = <<"/edit">>
     /\ req[r].msg.kind \in {"edited", "outOfRange"})
      => LET n == Len(req[r].loaded[at(parse(req[r].text), 1)[1]])
             idx == C20_Index(r)
         IN (req[r].msg.kind = "edited")
              <=> (~idx.nan /\ 10 <= idx.x10 /\ idx.x10 <= 10 * n)

C20_EditRange == C20_EntriesTrimmed /\ C20_RangeAgrees

=============================================================================
